---- MODULE Spec2Model ----
(***************************************************************************)
(* The blog API of aitva/blog-api: HTTP handlers over one bolt database,   *)
(* one bucket per user id, one key per article title, the value the gob    *)
(* encoding of the article.  The model follows the last revision of the    *)
(* service (src/main.go, lines 345-668); every handler is a process that   *)
(* validates its request, opens one bolt transaction, runs the closure it  *)
(* passes to db.Update / db.View and maps the outcome to a response.       *)
(***************************************************************************)
EXTENDS Integers, Sequences, FiniteSets, TLC

\* ------------------------------------------------------------------ bounds

\* the server clock runs from 0 to MaxClock
MaxClock == 1

\* ------------------------------------------------------------ input domains

Handlers == {"h1", "h2"}
SeqHandlers == {"h1"}
NoHandler == "none"

Ids == {"alice", "bob"}
\* the titles in byte order, the order of bolt's keys
TitleOrder == <<"T", "U">>
Titles == {TitleOrder[i] : i \in DOMAIN TitleOrder}
Contents == {"C", "D"}
\* the second user writes one article only
TitlesOf(id) == IF id = "alice" THEN Titles ELSE {"T"}
ContentsOf(id) == IF id = "alice" THEN Contents ELSE {"C"}
\* a path parameter that mux.Vars does not hold
NoParam == "<absent>"

EmptyFcn == [x \in {} |-> x]

\* ------------------------------------------------------------------- state

VARIABLES
    db,       \* the committed database: bucket name -> (key -> gob bytes)
    clock,    \* the server's wall clock
    writer,   \* the handler holding bolt's writer lock, or NoHandler
    pc,       \* where each handler is in its request
    req,      \* the request each handler serves
    a,        \* the handler's article struct
    root,     \* the root of the handler's open transaction
    err,      \* the error the transaction closure returned
    resp,     \* the response written
    opened,   \* transactions the request has opened
    arrived,  \* the clock when the request arrived
    ref,      \* history: the articles committed, id -> (title -> JSON article)
    wiped,    \* history: ids whose namespace was deleted and not written since
    seen      \* history: what ref and wiped held for req.id when the transaction began

vars == <<db, clock, writer, pc, req, a, root, err, resp, opened, arrived, ref, wiped, seen>>

\* ---------------------------------------------------------------- articles

ZeroTime == [wall |-> 0, mono |-> FALSE]
ZeroArticle == [Title |-> "", Content |-> "", Timestamp |-> ZeroTime]

\* time.Now(): the wall clock and a monotonic reading
Now(c) == [wall |-> c, mono |-> TRUE]

\* Time.Before / Time.After, as sort.Slice's less functions use them
Before(t, u) == t.wall < u.wall
After(t, u) == t.wall > u.wall

\* gob: the fields in order; Time.GobEncode keeps the wall time and drops the
\* monotonic reading
GobEncodeNoTime(art) == <<art.Title, art.Content, 0>>
GobEncode(art) == <<art.Title, art.Content, art.Timestamp.wall>>
GobDecode(data) ==
    [Title |-> data[1], Content |-> data[2],
     Timestamp |-> [wall |-> data[3], mono |-> FALSE]]

\* encoding/json of an article struct
JSONArticle(art) ==
    [title |-> art.Title, content |-> art.Content, timestamp |-> art.Timestamp.wall]

\* --------------------------------------------------------------- responses

NoResp == [code |-> 0, ctype |-> "", shape |-> "none", text |-> "", items |-> <<>>]

writeError(code, msg) ==
    [code |-> code, ctype |-> "text/plain", shape |-> "text", text |-> msg, items |-> <<>>]

\* a handler that returns without writing: net/http answers 200 with no body
EmptyOK == [code |-> 200, ctype |-> "", shape |-> "empty", text |-> "", items |-> <<>>]

JSONObject(art) ==
    [code |-> 200, ctype |-> "application/json", shape |-> "object", text |-> "",
     items |-> <<JSONArticle(art)>>]

\* json.Encode of []*article: null for the nil slice
JSONList(articles) ==
    [code |-> 200, ctype |-> "application/json",
     shape |-> IF Len(articles) = 0 THEN "null" ELSE "array", text |-> "",
     items |-> [i \in 1..Len(articles) |-> JSONArticle(articles[i])]]

XMLList(articles) ==
    [code |-> 200, ctype |-> "text/xml", shape |-> "xml", text |-> "",
     items |-> [i \in 1..Len(articles) |-> JSONArticle(articles[i])]]

\* ------------------------------------------------------------------- bolt

EmptyRoot == EmptyFcn
EmptyBucket == EmptyFcn

FcnPut(f, k, v) == [x \in (DOMAIN f) \cup {k} |-> IF x = k THEN v ELSE f[x]]
FcnDel(f, k) == [x \in (DOMAIN f) \ {k} |-> f[x]]

\* tx.Bucket(name) # nil
HasBucket(r, name) == name \in DOMAIN r

\* tx.CreateBucketIfNotExists(name)
CreateBucketIfNotExists(r, name) ==
    IF name = "" THEN [root |-> r, err |-> "ErrBucketNameRequired"]
    ELSE IF HasBucket(r, name) THEN [root |-> r, err |-> "nil"]
    ELSE [root |-> FcnPut(r, name, EmptyBucket), err |-> "nil"]

BucketPutAnyKey(r, name, key, value) ==
    [root |-> FcnPut(r, name, FcnPut(r[name], key, value)), err |-> "nil"]

BucketPutFresh(r, name, key, value) ==
    IF key = "" THEN [root |-> r, err |-> "ErrKeyRequired"]
    ELSE [root |-> FcnPut(r, name, FcnPut(EmptyBucket, key, value)), err |-> "nil"]

\* b.Put(key, value) on bucket name of the transaction's root
BucketPut(r, name, key, value) ==
    IF key = "" THEN [root |-> r, err |-> "ErrKeyRequired"]
    ELSE [root |-> FcnPut(r, name, FcnPut(r[name], key, value)), err |-> "nil"]

\* b.Get(key) # nil
BucketHas(r, name, key) == key \in DOMAIN r[name]

BucketDeleteDropEmpty(r, name, key) ==
    IF DOMAIN r[name] = {key} THEN FcnDel(r, name)
    ELSE FcnPut(r, name, FcnDel(r[name], key))

\* b.Delete(key)
BucketDelete(r, name, key) == FcnPut(r, name, FcnDel(r[name], key))

\* tx.DeleteBucket(name)
DeleteBucket(r, name) == FcnDel(r, name)

\* b.ForEach: the values in key order
ForEach(b) ==
    LET Stored(k) == k \in DOMAIN b
        keys == SelectSeq(TitleOrder, Stored)
    IN  [i \in 1..Len(keys) |-> b[keys[i]]]

\* sort.Slice(s, less), less the set of the pairs <<x, y>> with x before y:
\* some ordering of s that less does not contradict (the sort is not stable)
SortSlice(s, less) ==
    LET n == Len(s)
        perms == {f \in [1..n -> 1..n] : \A i, j \in 1..n : f[i] = f[j] => i = j}
    IN  {t \in {[i \in 1..n |-> s[f[i]]] : f \in perms} :
            \A i, j \in 1..n : i < j => <<t[j], t[i]>> \notin less}

\* ---------------------------------------------------------------- requests

\* a request as the router hands it to a handler: the route's handler, the
\* path parameters, the headers and the JSON body
Request(op, id, title, sort) ==
    [op |-> op, id |-> id, title |-> title, sort |-> sort, ctype |-> "",
     accept |-> {}, bodyOK |-> FALSE, btitle |-> "", bcontent |-> "",
     btime |-> NoParam]

PostRequest(id, ctype, ok, t, c) ==
    [Request("postArticle", id, NoParam, NoParam) EXCEPT
        !.ctype = ctype, !.bodyOK = ok, !.btitle = t, !.bcontent = c]

\* values of the body's "timestamp" field: an RFC 3339 time and another string
ClientTime == "1999-12-31T23:59:59Z"
BadTime == "yesterday"

\* Time.UnmarshalJSON
ParseTime(v) ==
    IF v = ClientTime THEN [err |-> "nil", t |-> [wall |-> 0 - 1, mono |-> FALSE]]
    ELSE [err |-> "parsing time", t |-> ZeroTime]

\* json.NewDecoder(r.Body).Decode(a) into a zero article
JSONDecode(r) ==
    IF ~r.bodyOK THEN [err |-> "syntax error", art |-> ZeroArticle]
    ELSE IF r.btime = NoParam
         THEN [err |-> "nil",
               art |-> [Title |-> r.btitle, Content |-> r.bcontent, Timestamp |-> ZeroTime]]
    ELSE [err |-> ParseTime(r.btime).err,
          art |-> [Title |-> r.btitle, Content |-> r.bcontent,
                   Timestamp |-> ParseTime(r.btime).t]]

\* POSTs whose body carries a "timestamp" field
TimedPostRequests ==
    {[PostRequest("alice", "application/json", TRUE, "T", "C") EXCEPT !.btime = v] :
        v \in {ClientTime, BadTime}}

PostRequests ==
    UNION {{PostRequest(id, "application/json", TRUE, t, c) :
                t \in TitlesOf(id), c \in ContentsOf(id)} : id \in Ids}
    \cup {PostRequest(id, "application/json", TRUE, "", "C") : id \in Ids}
    \cup {PostRequest("", "application/json", TRUE, "T", "C"),
          PostRequest("alice", "text/plain", TRUE, "T", "C"),
          PostRequest("alice", "application/json", FALSE, "", "")}

GetRequests ==
    {Request("getArticle", id, t, NoParam) : id \in Ids, t \in Titles}
    \cup {Request("getArticle", "", "T", NoParam),
          Request("getArticle", "alice", "", NoParam)}

DeleteRequests ==
    {Request("deleteArticle", id, t, NoParam) : id \in Ids, t \in Titles}
    \cup {Request("deleteArticle", "", "T", NoParam),
          Request("deleteArticle", "alice", "", NoParam)}

Orders == {NoParam, "asc", "desc", "sideways"}
Accepts == {{"text/xml"}, {"application/json"}, {"text/xml", "application/json"}}

GetAllRequests ==
    {Request("getArticles", id, NoParam, s) : id \in Ids, s \in Orders}
    \cup {[Request("getArticles", "alice", NoParam, NoParam) EXCEPT !.accept = acc] :
            acc \in Accepts}
    \cup {Request("getArticles", "", NoParam, NoParam)}

DeleteAllRequests ==
    {Request("deleteArticles", id, NoParam, NoParam) : id \in Ids \cup {""}}

\* a single-article GET and a POST that ask for XML
AcceptXMLRequests ==
    {[Request("getArticle", "alice", "T", NoParam) EXCEPT !.accept = {"text/xml"}],
     [PostRequest("alice", "application/json", TRUE, "T", "C") EXCEPT
         !.accept = {"text/xml"}]}

Requests ==
    PostRequests \cup GetRequests \cup DeleteRequests \cup GetAllRequests
    \cup DeleteAllRequests \cup TimedPostRequests \cup AcceptXMLRequests

NoRequest == Request("none", NoParam, NoParam, NoParam)

IsWrite(op) == op \in {"postArticle", "deleteArticle", "deleteArticles"}
IsRead(op) == op \in {"getArticle", "getArticles"}

\* -------------------------------------------------------------- validation
\* the message of the 400 a handler answers before it opens a transaction,
\* "" when the request passes

Missing(v) == v = NoParam \/ v = ""

postArticleInvalid(r) ==
    IF Missing(r.id) THEN "user ID is missing"
    ELSE IF r.ctype # "application/json" THEN "invalid content-type"
    ELSE IF JSONDecode(r).err # "nil" THEN "fail to parse JSON"
    ELSE ""

getArticleInvalid(r) ==
    IF Missing(r.id) THEN "missing ID"
    ELSE IF Missing(r.title) THEN "missing title"
    ELSE ""

deleteArticleInvalidNoTitle(r) ==
    IF Missing(r.id) THEN "missing ID" ELSE ""

deleteArticleInvalid(r) ==
    IF Missing(r.id) THEN "missing ID"
    ELSE IF Missing(r.title) THEN "missing title"
    ELSE ""

getArticlesInvalid(r) == IF Missing(r.id) THEN "missing ID" ELSE ""

deleteArticlesInvalid(r) == IF Missing(r.id) THEN "missing ID" ELSE ""

Invalid(r) ==
    CASE r.op = "postArticle" -> postArticleInvalid(r)
      [] r.op = "getArticle" -> getArticleInvalid(r)
      [] r.op = "deleteArticle" -> deleteArticleInvalid(r)
      [] r.op = "getArticles" -> getArticlesInvalid(r)
      [] r.op = "deleteArticles" -> deleteArticlesInvalid(r)

\* ------------------------------------------------- the transaction closures

postArticleUpdateKeyedByContent(r, id, art) ==
    LET c == CreateBucketIfNotExists(r, id)
    IN  IF c.err # "nil" THEN c
        ELSE BucketPut(c.root, id, art.Content, GobEncode(art))

\* the closure postArticleHandler passes to db.Update
postArticleUpdate(r, id, art) ==
    LET c == CreateBucketIfNotExists(r, id)
    IN  IF c.err # "nil" THEN c
        ELSE BucketPut(c.root, id, art.Title, GobEncode(art))

deleteArticleUpdateDropBucket(r, id, title) ==
    IF ~HasBucket(r, id) THEN [root |-> r, err |-> "errUnknownID"]
    ELSE IF ~BucketHas(r, id, title) THEN [root |-> r, err |-> "errUnknownTitle"]
    ELSE [root |-> DeleteBucket(r, id), err |-> "nil"]

deleteArticleUpdateNoCheck(r, id, title) ==
    IF ~HasBucket(r, id) THEN [root |-> r, err |-> "errUnknownID"]
    ELSE [root |-> BucketDelete(r, id, title), err |-> "nil"]

\* the closure deleteArticleHandler passes to db.Update
deleteArticleUpdate(r, id, title) ==
    IF ~HasBucket(r, id) THEN [root |-> r, err |-> "errUnknownID"]
    ELSE IF ~BucketHas(r, id, title) THEN [root |-> r, err |-> "errUnknownTitle"]
    ELSE [root |-> BucketDelete(r, id, title), err |-> "nil"]

deleteArticlesUpdateKeepBucket(r, id) ==
    IF ~HasBucket(r, id) THEN [root |-> r, err |-> "errUnknownID"]
    ELSE [root |-> FcnPut(r, id, EmptyBucket), err |-> "nil"]

\* the closure deleteArticlesHandler passes to db.Update
deleteArticlesUpdate(r, id) ==
    IF ~HasBucket(r, id) THEN [root |-> r, err |-> "errUnknownID"]
    ELSE [root |-> DeleteBucket(r, id), err |-> "nil"]

getArticleViewNoNilCheck(r, id, title) ==
    IF ~HasBucket(r, id) THEN [art |-> ZeroArticle, err |-> "errUnknownID"]
    ELSE IF ~BucketHas(r, id, title) THEN [art |-> ZeroArticle, err |-> "EOF"]
    ELSE [art |-> GobDecode(r[id][title]), err |-> "nil"]

\* the closure getArticleHandler passes to db.View
getArticleView(r, id, title) ==
    IF ~HasBucket(r, id) THEN [art |-> ZeroArticle, err |-> "errUnknownID"]
    ELSE IF ~BucketHas(r, id, title) THEN [art |-> ZeroArticle, err |-> "errUnknownTitle"]
    ELSE [art |-> GobDecode(r[id][title]), err |-> "nil"]

getArticlesViewSharedPointer(r, id) ==
    IF ~HasBucket(r, id) THEN [articles |-> <<>>, err |-> "errUnknownID"]
    ELSE LET values == ForEach(r[id])
         IN  [articles |-> [i \in 1..Len(values) |-> GobDecode(values[Len(values)])],
              err |-> "nil"]

\* the closure getArticlesHandler passes to db.View
getArticlesView(r, id) ==
    IF ~HasBucket(r, id) THEN [articles |-> <<>>, err |-> "errUnknownID"]
    ELSE LET values == ForEach(r[id])
         IN  [articles |-> [i \in 1..Len(values) |-> GobDecode(values[i])],
              err |-> "nil"]

\* --------------------------------------------------------- status mapping

ErrorText(e) ==
    IF e = "errUnknownID" THEN "unknown ID"
    ELSE IF e = "errUnknownTitle" THEN "unknown title"
    ELSE e

postArticleResponse(e, art) ==
    IF e # "nil" THEN writeError(500, "fail to access DB") ELSE JSONObject(art)

getArticleResponse(e, art) ==
    IF e = "errUnknownID" \/ e = "errUnknownTitle" THEN writeError(404, ErrorText(e))
    ELSE IF e # "nil" THEN writeError(500, "fail to access DB")
    ELSE JSONObject(art)

deleteArticleResponse(e) ==
    IF e = "errUnknownID" \/ e = "errUnknownTitle" THEN writeError(404, ErrorText(e))
    ELSE IF e # "nil" THEN writeError(500, "fail to access DB")
    ELSE EmptyOK

deleteArticlesResponseNo404(e) ==
    IF e # "nil" THEN writeError(500, "fail to access DB") ELSE EmptyOK

deleteArticlesResponse(e) ==
    IF e = "errUnknownID" THEN writeError(404, ErrorText(e))
    ELSE IF e # "nil" THEN writeError(500, "fail to access DB")
    ELSE EmptyOK

SortedArticlesBothBefore(articles, order) ==
    LET all == {articles[i] : i \in 1..Len(articles)}
        asc == {xy \in all \X all : Before(xy[1].Timestamp, xy[2].Timestamp)}
    IN  IF order = "asc" \/ order = "desc" THEN SortSlice(articles, asc)
        ELSE {articles}

\* the orderings sort.Slice may leave for the sort parameter
SortedArticles(articles, order) ==
    LET all == {articles[i] : i \in 1..Len(articles)}
        asc == {xy \in all \X all : Before(xy[1].Timestamp, xy[2].Timestamp)}
        desc == {xy \in all \X all : After(xy[1].Timestamp, xy[2].Timestamp)}
    IN  IF order = "asc" THEN SortSlice(articles, asc)
        ELSE IF order = "desc" THEN SortSlice(articles, desc)
        ELSE {articles}

\* strings.Contains(accept, token), the header held as the set of its tokens
Contains(accept, token) == token \in accept

EncodeArticlesXMLFirst(articles, accept) ==
    IF Contains(accept, "text/xml") THEN XMLList(articles) ELSE JSONList(articles)

EncodeArticles(articles, accept) ==
    IF Contains(accept, "text/xml") /\ ~Contains(accept, "application/json")
    THEN XMLList(articles)
    ELSE JSONList(articles)

\* the responses getArticlesHandler may write once db.View has returned
getArticlesResponses(e, articles, r) ==
    IF e = "errUnknownID" THEN {writeError(404, ErrorText(e))}
    ELSE IF e # "nil" THEN {writeError(500, "fail to access DB")}
    ELSE IF r.sort # NoParam /\ r.sort \notin {"asc", "desc"}
         THEN {writeError(400, "invalid sort parameter")}
    ELSE {EncodeArticles(s, r.accept) : s \in SortedArticles(articles, r.sort)}

\* ----------------------------------------------------------------- history

\* what the reference map holds for id, and whether a write transaction is open
Seen(id) ==
    [exists |-> id \in DOMAIN ref, wiped |-> id \in wiped,
     arts |-> IF id \in DOMAIN ref THEN ref[id] ELSE EmptyFcn,
     busy |-> writer # NoHandler, raced |-> FALSE]

NoSeen ==
    [exists |-> FALSE, wiped |-> FALSE, arts |-> EmptyFcn, busy |-> FALSE,
     raced |-> FALSE]

\* another handler waits for the writer lock with the same request as p
Raced(p) ==
    \E q \in Handlers \ {p} : pc[q] = "lock" /\ req[q] = req[p]

\* the reference map after the committed mutation r, which answered rsp: a
\* Put files the article it answered under that article's title
RefApply(m, r, rsp) ==
    CASE r.op = "postArticle" ->
            FcnPut(m, r.id,
                   FcnPut(IF r.id \in DOMAIN m THEN m[r.id] ELSE EmptyFcn,
                          rsp.items[1].title, rsp.items[1]))
      [] r.op = "deleteArticle" -> FcnPut(m, r.id, FcnDel(m[r.id], r.title))
      [] r.op = "deleteArticles" -> FcnDel(m, r.id)

WipedApply(w, r) ==
    CASE r.op = "postArticle" -> w \ {r.id}
      [] r.op = "deleteArticle" -> w
      [] r.op = "deleteArticles" -> w \cup {r.id}

\* ------------------------------------------------------------------ actions

Init ==
    /\ db = EmptyRoot
    /\ clock = 0
    /\ writer = NoHandler
    /\ pc = [p \in Handlers |-> "idle"]
    /\ req = [p \in Handlers |-> NoRequest]
    /\ a = [p \in Handlers |-> ZeroArticle]
    /\ root = [p \in Handlers |-> EmptyRoot]
    /\ err = [p \in Handlers |-> "nil"]
    /\ resp = [p \in Handlers |-> NoResp]
    /\ opened = [p \in Handlers |-> 0]
    /\ arrived = [p \in Handlers |-> 0]
    /\ ref = EmptyFcn
    /\ wiped = {}
    /\ seen = [p \in Handlers |-> NoSeen]

\* the server clock advances
Tick ==
    /\ clock < MaxClock
    /\ clock' = clock + 1
    /\ UNCHANGED <<db, writer, pc, req, a, root, err, resp, opened, arrived, ref, wiped, seen>>

\* the router hands request r to a handler
Receive(p, r) ==
    /\ pc[p] \in {"idle", "done"}
    /\ pc' = [pc EXCEPT ![p] = "start"]
    /\ req' = [req EXCEPT ![p] = r]
    /\ a' = [a EXCEPT ![p] = ZeroArticle]
    /\ err' = [err EXCEPT ![p] = "nil"]
    /\ resp' = [resp EXCEPT ![p] = NoResp]
    /\ opened' = [opened EXCEPT ![p] = 0]
    /\ arrived' = [arrived EXCEPT ![p] = clock]
    /\ seen' = [seen EXCEPT ![p] = NoSeen]
    /\ UNCHANGED <<db, clock, writer, root, ref, wiped>>

\* postArticleHandler up to db.Update: validation, JSON decoding, the timestamp
postArticleHandler(p) ==
    /\ pc[p] = "start"
    /\ req[p].op = "postArticle"
    /\ IF postArticleInvalid(req[p]) # ""
       THEN /\ pc' = [pc EXCEPT ![p] = "done"]
            /\ resp' = [resp EXCEPT ![p] = writeError(400, postArticleInvalid(req[p]))]
            /\ a' = a
       ELSE /\ pc' = [pc EXCEPT ![p] = "lock"]
            /\ a' = [a EXCEPT ![p] = [JSONDecode(req[p]).art EXCEPT
                                          !.Timestamp = Now(clock)]]
            /\ resp' = resp
    /\ UNCHANGED <<db, clock, writer, req, root, err, opened, arrived, ref, wiped, seen>>

\* the four other handlers up to their transaction: validation
Validate(p, op) ==
    /\ pc[p] = "start"
    /\ req[p].op = op
    /\ IF Invalid(req[p]) # ""
       THEN /\ pc' = [pc EXCEPT ![p] = "done"]
            /\ resp' = [resp EXCEPT ![p] = writeError(400, Invalid(req[p]))]
       ELSE /\ pc' = [pc EXCEPT ![p] = "lock"]
            /\ resp' = resp
    /\ UNCHANGED <<db, clock, writer, req, a, root, err, opened, arrived, ref, wiped, seen>>

getArticleHandler(p) == Validate(p, "getArticle")
deleteArticleHandler(p) == Validate(p, "deleteArticle")
getArticlesHandler(p) == Validate(p, "getArticles")
deleteArticlesHandler(p) == Validate(p, "deleteArticles")

UpdateBeginNoLock(p) ==
    /\ pc[p] = "lock"
    /\ IsWrite(req[p].op)
    /\ writer' = p
    /\ root' = [root EXCEPT ![p] = db]
    /\ opened' = [opened EXCEPT ![p] = @ + 1]
    /\ seen' = [seen EXCEPT ![p] = [Seen(req[p].id) EXCEPT !.raced = Raced(p)]]
    /\ pc' = [pc EXCEPT ![p] = "body"]
    /\ UNCHANGED <<db, clock, req, a, err, resp, arrived, ref, wiped>>

\* db.Update begins: the writer lock, and a root to work on
UpdateBegin(p) ==
    /\ pc[p] = "lock"
    /\ IsWrite(req[p].op)
    /\ writer = NoHandler
    /\ writer' = p
    /\ root' = [root EXCEPT ![p] = db]
    /\ opened' = [opened EXCEPT ![p] = @ + 1]
    /\ seen' = [seen EXCEPT ![p] = [Seen(req[p].id) EXCEPT !.raced = Raced(p)]]
    /\ pc' = [pc EXCEPT ![p] = "body"]
    /\ UNCHANGED <<db, clock, req, a, err, resp, arrived, ref, wiped>>

ViewRootDirty == IF writer # NoHandler THEN root[writer] ELSE db

\* the root a read-only transaction reads: the one committed when it begins
ViewRoot == db

ViewBeginCreates(p) ==
    /\ pc[p] = "lock"
    /\ IsRead(req[p].op)
    /\ db' = CreateBucketIfNotExists(db, req[p].id).root
    /\ root' = [root EXCEPT ![p] = db']
    /\ opened' = [opened EXCEPT ![p] = @ + 1]
    /\ seen' = [seen EXCEPT ![p] = Seen(req[p].id)]
    /\ pc' = [pc EXCEPT ![p] = "body"]
    /\ UNCHANGED <<clock, writer, req, a, err, resp, arrived, ref, wiped>>

\* db.View begins
ViewBegin(p) ==
    /\ pc[p] = "lock"
    /\ IsRead(req[p].op)
    /\ root' = [root EXCEPT ![p] = ViewRoot]
    /\ opened' = [opened EXCEPT ![p] = @ + 1]
    /\ seen' = [seen EXCEPT ![p] = Seen(req[p].id)]
    /\ pc' = [pc EXCEPT ![p] = "body"]
    /\ UNCHANGED <<db, clock, writer, req, a, err, resp, arrived, ref, wiped>>

\* the closure of a db.Update runs on the transaction's root
UpdateResult(r, rt, art) ==
    CASE r.op = "postArticle" -> postArticleUpdate(rt, r.id, art)
      [] r.op = "deleteArticle" -> deleteArticleUpdate(rt, r.id, r.title)
      [] r.op = "deleteArticles" -> deleteArticlesUpdate(rt, r.id)

UpdateBody(p, op) ==
    /\ pc[p] = "body"
    /\ req[p].op = op
    /\ LET res == UpdateResult(req[p], root[p], a[p])
       IN  /\ root' = [root EXCEPT ![p] = res.root]
           /\ err' = [err EXCEPT ![p] = res.err]
    /\ pc' = [pc EXCEPT ![p] = "end"]
    /\ UNCHANGED <<db, clock, writer, req, a, resp, opened, arrived, ref, wiped, seen>>

postArticleTx(p) == UpdateBody(p, "postArticle")
deleteArticleTx(p) == UpdateBody(p, "deleteArticle")
deleteArticlesTx(p) == UpdateBody(p, "deleteArticles")

UpdateResponse(r, e, art) ==
    CASE r.op = "postArticle" -> postArticleResponse(e, art)
      [] r.op = "deleteArticle" -> deleteArticleResponse(e)
      [] r.op = "deleteArticles" -> deleteArticlesResponse(e)

TxOutcomeNoRollback(old, rt, e) == rt

\* the committed root after db.Update: the closure's error rolls back
TxOutcome(old, rt, e) == IF e = "nil" THEN rt ELSE old

UpdateEndKeepsLock(p, commitFails) ==
    /\ pc[p] = "end"
    /\ LET e == IF err[p] = "nil" /\ commitFails THEN "commit failed" ELSE err[p]
       IN  /\ db' = TxOutcome(db, root[p], e)
           /\ ref' = IF e = "nil" THEN RefApply(ref, req[p], UpdateResponse(req[p], e, a[p]))
                               ELSE ref
           /\ wiped' = IF e = "nil" THEN WipedApply(wiped, req[p]) ELSE wiped
           /\ err' = [err EXCEPT ![p] = e]
           /\ resp' = [resp EXCEPT ![p] = UpdateResponse(req[p], e, a[p])]
           /\ writer' = IF e = "nil" THEN NoHandler ELSE writer
    /\ root' = [root EXCEPT ![p] = EmptyRoot]
    /\ pc' = [pc EXCEPT ![p] = "done"]
    /\ UNCHANGED <<clock, req, a, opened, arrived, seen>>

UpdateEndRetry(p, commitFails) ==
    /\ pc[p] = "end"
    /\ LET e == IF err[p] = "nil" /\ commitFails THEN "commit failed" ELSE err[p]
       IN  /\ db' = TxOutcome(db, root[p], e)
           /\ ref' = IF e = "nil" THEN RefApply(ref, req[p], UpdateResponse(req[p], e, a[p]))
                               ELSE ref
           /\ wiped' = IF e = "nil" THEN WipedApply(wiped, req[p]) ELSE wiped
           /\ err' = [err EXCEPT ![p] = IF e = "commit failed" THEN "nil" ELSE e]
           /\ resp' = [resp EXCEPT ![p] = IF e = "commit failed" THEN NoResp
                                          ELSE UpdateResponse(req[p], e, a[p])]
           /\ pc' = [pc EXCEPT ![p] = IF e = "commit failed" THEN "lock" ELSE "done"]
    /\ writer' = NoHandler
    /\ root' = [root EXCEPT ![p] = EmptyRoot]
    /\ UNCHANGED <<clock, req, a, opened, arrived, seen>>

\* db.Update ends: commit when the closure returned nil (the commit itself may
\* fail), rollback otherwise; the lock is released and the handler answers
UpdateEnd(p, commitFails) ==
    /\ pc[p] = "end"
    /\ LET e == IF err[p] = "nil" /\ commitFails THEN "commit failed" ELSE err[p]
       IN  /\ db' = TxOutcome(db, root[p], e)
           /\ ref' = IF e = "nil" THEN RefApply(ref, req[p], UpdateResponse(req[p], e, a[p]))
                               ELSE ref
           /\ wiped' = IF e = "nil" THEN WipedApply(wiped, req[p]) ELSE wiped
           /\ err' = [err EXCEPT ![p] = e]
           /\ resp' = [resp EXCEPT ![p] = UpdateResponse(req[p], e, a[p])]
    /\ writer' = NoHandler
    /\ root' = [root EXCEPT ![p] = EmptyRoot]
    /\ pc' = [pc EXCEPT ![p] = "done"]
    /\ UNCHANGED <<clock, req, a, opened, arrived, seen>>

\* getArticleHandler from db.View on
getArticleTx(p) ==
    /\ pc[p] = "body"
    /\ req[p].op = "getArticle"
    /\ LET res == getArticleView(root[p], req[p].id, req[p].title)
       IN  /\ err' = [err EXCEPT ![p] = res.err]
           /\ a' = [a EXCEPT ![p] = res.art]
           /\ resp' = [resp EXCEPT ![p] = getArticleResponse(res.err, res.art)]
    /\ root' = [root EXCEPT ![p] = EmptyRoot]
    /\ pc' = [pc EXCEPT ![p] = "done"]
    /\ UNCHANGED <<db, clock, writer, req, opened, arrived, ref, wiped, seen>>

\* getArticlesHandler from db.View on
getArticlesTx(p) ==
    /\ pc[p] = "body"
    /\ req[p].op = "getArticles"
    /\ LET res == getArticlesView(root[p], req[p].id)
       IN  /\ err' = [err EXCEPT ![p] = res.err]
           /\ \E rsp \in getArticlesResponses(res.err, res.articles, req[p]) :
                 resp' = [resp EXCEPT ![p] = rsp]
    /\ root' = [root EXCEPT ![p] = EmptyRoot]
    /\ pc' = [pc EXCEPT ![p] = "done"]
    /\ UNCHANGED <<db, clock, writer, req, a, opened, arrived, ref, wiped, seen>>

Step(p) ==
    \/ postArticleHandler(p)
    \/ getArticleHandler(p)
    \/ deleteArticleHandler(p)
    \/ getArticlesHandler(p)
    \/ deleteArticlesHandler(p)
    \/ UpdateBegin(p)
    \/ ViewBegin(p)
    \/ postArticleTx(p)
    \/ deleteArticleTx(p)
    \/ deleteArticlesTx(p)
    \/ \E commitFails \in BOOLEAN : UpdateEnd(p, commitFails)
    \/ getArticleTx(p)
    \/ getArticlesTx(p)

\* one request at a time
Next ==
    \/ Tick
    \/ \E p \in SeqHandlers : \E r \in Requests : Receive(p, r)
    \/ \E p \in SeqHandlers : Step(p)

Spec == Init /\ [][Next]_vars

\* one handler serves the writes of one user while the other serves reads
Writers == {"h1"}
Readers == {"h2"}

ConcWrites ==
    {PostRequest("alice", "application/json", TRUE, "T", c) : c \in Contents}
    \cup {PostRequest("alice", "application/json", TRUE, "U", "C"),
          PostRequest("alice", "application/json", TRUE, "", "C"),
          Request("deleteArticle", "alice", "T", NoParam),
          Request("deleteArticles", "alice", NoParam, NoParam)}

ConcReads ==
    {Request("getArticle", "alice", "T", NoParam),
     Request("getArticles", "alice", NoParam, NoParam)}

\* the handlers run concurrently
ConcNext ==
    \/ Tick
    \/ \E p \in Writers : \E r \in ConcWrites : Receive(p, r)
    \/ \E p \in Readers : \E r \in ConcReads : Receive(p, r)
    \/ \E p \in Handlers : Step(p)

ConcSpec == Init /\ [][ConcNext]_vars

\* both handlers serve writes, so that write transactions queue for the lock
RaceWrites ==
    {PostRequest("alice", "application/json", TRUE, "T", "C"),
     PostRequest("bob", "application/json", TRUE, "T", "C"),
     Request("deleteArticle", "alice", "T", NoParam),
     Request("deleteArticles", "alice", NoParam, NoParam),
     [PostRequest("alice", "application/json", TRUE, "T", "C") EXCEPT !.btime = BadTime]}

\* the steps of the three mutating handlers
WriteStep(p) ==
    \/ postArticleHandler(p)
    \/ deleteArticleHandler(p)
    \/ deleteArticlesHandler(p)
    \/ UpdateBegin(p)
    \/ postArticleTx(p)
    \/ deleteArticleTx(p)
    \/ deleteArticlesTx(p)
    \/ \E commitFails \in BOOLEAN : UpdateEnd(p, commitFails)

RaceNext ==
    \/ Tick
    \/ \E p \in Handlers : \E r \in RaceWrites : Receive(p, r)
    \/ \E p \in Handlers : WriteStep(p)

RaceSpec == Init /\ [][RaceNext]_vars

\* one request of each route, served by both handlers
LiveRequests ==
    {PostRequest("alice", "application/json", TRUE, "T", "C"),
     Request("getArticle", "alice", "T", NoParam),
     Request("deleteArticle", "alice", "T", NoParam),
     Request("getArticles", "alice", NoParam, NoParam),
     Request("deleteArticles", "alice", NoParam, NoParam)}

LiveNext ==
    \/ \E p \in Handlers : \E r \in LiveRequests : Receive(p, r)
    \/ \E p \in Handlers : Step(p)

\* every handler goroutine keeps being scheduled, and a goroutine blocked on
\* the writer lock gets it once it keeps being released
Fairness ==
    \A p \in Handlers : WF_vars(Step(p)) /\ SF_vars(UpdateBegin(p))

FairSpec == Init /\ [][LiveNext]_vars /\ Fairness

\* ------------------------------------------- the earlier single-article GETs

\* validation of the earlier revisions: id, then title
oldGetArticleInvalid(r) ==
    IF Missing(r.id) THEN "user ID is missing"
    ELSE IF Missing(r.title) THEN "article title is missing"
    ELSE ""

\* the db.View closure of the query-string revisions: b.Get's result goes to
\* the gob decoder unchecked, and decoding the nil of a missing key is EOF
getArticleQueryView(r, id, title) ==
    IF ~HasBucket(r, id) THEN [art |-> ZeroArticle, err |-> "unknownID"]
    ELSE IF ~BucketHas(r, id, title) THEN [art |-> ZeroArticle, err |-> "EOF"]
    ELSE [art |-> GobDecode(r[id][title]), err |-> "nil"]

getArticleQueryResponse(e, art) ==
    IF e = "unknownID" THEN writeError(400, "user ID is unknown")
    ELSE IF e # "nil" THEN writeError(500, "fail to access DB")
    ELSE JSONObject(art)

\* the first path-parameter revision: the final closure, answered with 400
getArticlePathResponse(e, art) ==
    IF e = "errUnknownID" \/ e = "errUnknownTitle" THEN writeError(400, ErrorText(e))
    ELSE IF e # "nil" THEN writeError(500, "fail to access DB")
    ELSE JSONObject(art)

\* a whole read-only handler: validation, one db.View on the committed root,
\* the response rsp for its result e
OldGet(p, op, e, rsp) ==
    /\ pc[p] = "start"
    /\ req[p].op = op
    /\ IF oldGetArticleInvalid(req[p]) # ""
       THEN /\ resp' = [resp EXCEPT ![p] = writeError(400, oldGetArticleInvalid(req[p]))]
            /\ UNCHANGED <<err, opened, seen>>
       ELSE /\ resp' = [resp EXCEPT ![p] = rsp]
            /\ err' = [err EXCEPT ![p] = e]
            /\ opened' = [opened EXCEPT ![p] = @ + 1]
            /\ seen' = [seen EXCEPT ![p] = Seen(req[p].id)]
    /\ pc' = [pc EXCEPT ![p] = "done"]
    /\ UNCHANGED <<db, clock, writer, req, a, root, arrived, ref, wiped>>

\* getArticle and getArticleHandler of the query-string revisions
getArticleQuery(p) ==
    LET res == getArticleQueryView(ViewRoot, req[p].id, req[p].title)
    IN  OldGet(p, "getArticleQuery", res.err, getArticleQueryResponse(res.err, res.art))

\* getArticleHandler of the first path-parameter revision
getArticlePath(p) ==
    LET res == getArticleView(ViewRoot, req[p].id, req[p].title)
    IN  OldGet(p, "getArticlePath", res.err, getArticlePathResponse(res.err, res.art))

OldRequests ==
    {Request(op, id, t, NoParam) :
        op \in {"getArticleQuery", "getArticlePath"}, id \in Ids \cup {""},
        t \in Titles \cup {""}}
    \cup {PostRequest("alice", "application/json", TRUE, t, "C") : t \in Titles}
    \cup {PostRequest("bob", "application/json", TRUE, "T", "C")}

OldStep(p) ==
    \/ postArticleHandler(p)
    \/ UpdateBegin(p)
    \/ postArticleTx(p)
    \/ \E commitFails \in BOOLEAN : UpdateEnd(p, commitFails)
    \/ getArticleQuery(p)
    \/ getArticlePath(p)

OldNext ==
    \/ Tick
    \/ \E p \in SeqHandlers : \E r \in OldRequests : Receive(p, r)
    \/ \E p \in SeqHandlers : OldStep(p)

OldSpec == Init /\ [][OldNext]_vars

\* ------------------------------------------------------------------ claims

Done(p) == pc[p] = "done"
\* the handler's request passed validation and ran its transaction
Ran(p) == pc[p] = "done" /\ opened[p] = 1

\* the articles of a response, as a set
Items(rsp) == {rsp.items[i] : i \in 1..Len(rsp.items)}
\* the articles the reference map held for the request's namespace
SeenArticles(p) == {seen[p].arts[t] : t \in DOMAIN seen[p].arts}

UnknownID == writeError(404, "unknown ID")
UnknownTitle == writeError(404, "unknown title")

\* C1: a successful Put answers the input's title and content with a
\* timestamp not earlier than the clock at the request's arrival, and a Get of
\* (id, title) answers exactly the article that the last committed Put to
\* (id, title) answered, when no other write to (id, title) came between.
C1_PutThenGet ==
    \A p \in Handlers :
        /\ (Done(p) /\ req[p].op = "postArticle" /\ resp[p].code = 200) =>
              /\ resp[p].shape = "object"
              /\ resp[p].items[1].title = req[p].btitle
              /\ resp[p].items[1].content = req[p].bcontent
              /\ resp[p].items[1].timestamp >= arrived[p]
        /\ (Ran(p) /\ req[p].op = "getArticle" /\ req[p].title \in DOMAIN seen[p].arts) =>
              /\ resp[p].code = 200
              /\ resp[p].shape = "object"
              /\ resp[p].items = <<seen[p].arts[req[p].title]>>
              /\ resp[p].items[1].title = req[p].title

C1_Witness ==
    \E p \in Handlers :
        /\ Ran(p) /\ req[p].op = "getArticle" /\ resp[p].code = 200
        /\ resp[p].items[1].content = "D"
        /\ resp[p].items[1].timestamp >= 1

\* C2: Get and Delete fail with errUnknownID when the namespace does not
\* exist and with errUnknownTitle when it exists without the title; neither
\* reports the other kind or succeeds.
C2_NotFoundKinds ==
    \A p \in Handlers :
        (Ran(p) /\ req[p].op \in {"getArticle", "deleteArticle"}) =>
            /\ ~seen[p].exists => (err[p] = "errUnknownID" /\ resp[p] = UnknownID)
            /\ (seen[p].exists /\ req[p].title \notin DOMAIN seen[p].arts) =>
                  (err[p] = "errUnknownTitle" /\ resp[p] = UnknownTitle)

C2_Witness ==
    \E p \in Handlers :
        /\ Ran(p) /\ req[p].op = "getArticle"
        /\ seen[p].exists /\ DOMAIN seen[p].arts = {"U"} /\ req[p].title = "T"
        /\ err[p] = "errUnknownTitle"

\* the articles GetAll would find in namespace id of root r
Listed(r, id) == IF HasBucket(r, id) THEN getArticlesView(r, id).articles ELSE <<>>

TitlesUnique(r) ==
    \A id \in DOMAIN r :
        \A i, j \in 1..Len(Listed(r, id)) :
            Listed(r, id)[i].Title = Listed(r, id)[j].Title => i = j

PutEffect ==
    \A p \in Handlers :
        (pc[p] = "end" /\ pc'[p] = "done" /\ req[p].op = "postArticle"
            /\ resp'[p].code = 200) =>
            LET id == req[p].id
                t == req[p].btitle
                had == HasBucket(db, id) /\ BucketHas(db, id, t)
            IN  /\ HasBucket(db', id)
                /\ BucketHas(db', id, t)
                /\ GobDecode(db'[id][t]).Content = req[p].bcontent
                /\ GobDecode(db'[id][t]).Timestamp.wall = a[p].Timestamp.wall
                /\ Len(Listed(db', id)) = Len(Listed(db, id)) + (IF had THEN 0 ELSE 1)

\* C3: a committed Put leaves the article count of its namespace unchanged
\* when the title was stored already, replacing content and timestamp, and
\* raises it by one otherwise; the titles of a namespace's articles stay
\* pairwise distinct.
C3_Overwrite == [][PutEffect /\ TitlesUnique(db')]_vars

C3_Witness ==
    \E p \in Handlers :
        /\ Done(p) /\ req[p].op = "postArticle" /\ resp[p].code = 200
        /\ req[p].btitle \in DOMAIN seen[p].arts
        /\ seen[p].arts[req[p].btitle].content # req[p].bcontent
        /\ seen[p].arts[req[p].btitle].timestamp < resp[p].items[1].timestamp
        /\ Len(Listed(db, req[p].id)) = 2

\* C4: a Get or GetAll whose transaction begins after a committed
\* DeleteAll(id), with no Put to id committed since, answers 404 unknown ID.
C4_DeleteAllThenRead ==
    \A p \in Handlers :
        (Ran(p) /\ req[p].op \in {"getArticle", "getArticles"} /\ seen[p].wiped) =>
            (err[p] = "errUnknownID" /\ resp[p] = UnknownID)

C4_Witness ==
    \E p \in Handlers :
        /\ Ran(p) /\ req[p].op = "getArticles" /\ seen[p].wiped
        /\ resp[p] = UnknownID

\* the namespace of the request existed with no article when the transaction began
SawEmpty(p) == seen[p].exists /\ DOMAIN seen[p].arts = {}

\* C5 (as stated): the reads of a namespace emptied by Delete answer what the
\* reads of a namespace that never existed answer, unknown ID.
C5_EmptyLikeAbsent ==
    \A p \in Handlers :
        (Ran(p) /\ req[p].op \in {"getArticle", "getArticles"} /\ SawEmpty(p)) =>
            resp[p] = UnknownID

\* C5 (amended): reads of a namespace that does not exist fail with unknown
\* ID; of a namespace that exists with no article, Get fails with unknown
\* title and GetAll succeeds with an empty list.
C5_EmptyIsNotAbsent ==
    \A p \in Handlers :
        (Ran(p) /\ req[p].op \in {"getArticle", "getArticles"}) =>
            /\ ~seen[p].exists => (err[p] = "errUnknownID" /\ resp[p] = UnknownID)
            /\ (SawEmpty(p) /\ req[p].op = "getArticle") =>
                  (err[p] = "errUnknownTitle" /\ resp[p] = UnknownTitle)
            /\ (SawEmpty(p) /\ req[p].op = "getArticles") =>
                  /\ err[p] = "nil"
                  /\ req[p].sort \in {NoParam, "asc", "desc"} =>
                        (resp[p].code = 200 /\ resp[p].items = <<>>)

C5_Witness ==
    \E p \in Handlers :
        /\ Ran(p) /\ req[p].op = "getArticles" /\ SawEmpty(p)
        /\ resp[p].code = 200 /\ resp[p].shape = "null"

Commits(p, op) == pc[p] = "end" /\ pc'[p] = "done" /\ req[p].op = op /\ err'[p] = "nil"

DeleteKeepsNamespace ==
    /\ \A id \in DOMAIN db :
          id \notin DOMAIN db' =>
              \E p \in Handlers : Commits(p, "deleteArticles") /\ req[p].id = id
    /\ \A p \in Handlers : Commits(p, "deleteArticle") => HasBucket(db', req[p].id)
    /\ \A p \in Handlers :
          (pc[p] = "body" /\ pc'[p] = "end" /\ req[p].op = "deleteArticles"
              /\ seen[p].exists) => err'[p] = "nil"

\* C6: a committed Delete leaves the namespace in place, also when it removed
\* the last article, so that a DeleteAll that follows does not fail with
\* unknown ID; a namespace disappears only in the commit of a DeleteAll of it.
C6_DeleteKeepsNamespace == [][DeleteKeepsNamespace]_vars

C6_Witness ==
    \E p \in Handlers :
        /\ Done(p) /\ req[p].op = "deleteArticles" /\ resp[p].code = 200
        /\ SawEmpty(p)

\* C7: an unordered GetAll of an existing namespace answers exactly the
\* articles of the reference map, each once: per title the article of the last
\* committed Put since the last DeleteAll, unless deleted since.
C7_GetAllIsReference ==
    \A p \in Handlers :
        (Ran(p) /\ req[p].op = "getArticles" /\ req[p].sort = NoParam
            /\ seen[p].exists) =>
            /\ resp[p].code = 200
            /\ Items(resp[p]) = SeenArticles(p)
            /\ Len(resp[p].items) = Cardinality(DOMAIN seen[p].arts)

C7_Witness ==
    \E p \in Handlers :
        /\ Ran(p) /\ req[p].op = "getArticles" /\ req[p].sort = NoParam
        /\ req[p].id = "alice" /\ Len(resp[p].items) = 2
        /\ "bob" \in DOMAIN ref /\ DOMAIN ref["bob"] # {}

\* C8: GetAll asc answers the articles by non-decreasing timestamp, GetAll
\* desc by non-increasing timestamp, equal timestamps included, and either is
\* a permutation of the namespace's articles.
C8_Sorted ==
    \A p \in Handlers :
        (Ran(p) /\ req[p].op = "getArticles" /\ req[p].sort \in {"asc", "desc"}
            /\ seen[p].exists) =>
            /\ resp[p].code = 200
            /\ Items(resp[p]) = SeenArticles(p)
            /\ Len(resp[p].items) = Cardinality(DOMAIN seen[p].arts)
            /\ \A i, j \in 1..Len(resp[p].items) :
                  i < j =>
                      IF req[p].sort = "asc"
                      THEN resp[p].items[i].timestamp <= resp[p].items[j].timestamp
                      ELSE resp[p].items[i].timestamp >= resp[p].items[j].timestamp

C8_Witness ==
    \E p \in Handlers :
        /\ Ran(p) /\ req[p].op = "getArticles" /\ req[p].sort = "desc"
        /\ Len(resp[p].items) = 2
        /\ resp[p].items[1].title = "U"
        /\ resp[p].items[1].timestamp > resp[p].items[2].timestamp

\* C9 (as stated): a GetAll whose sort parameter is neither asc nor desc opens
\* no transaction and answers 400, whether or not the namespace exists.
C9_InvalidOrderBeforeStore ==
    \A p \in Handlers :
        (req[p].op = "getArticles" /\ ~Missing(req[p].id)
            /\ req[p].sort \notin {NoParam, "asc", "desc"}) =>
            /\ opened[p] = 0
            /\ Done(p) => resp[p] = writeError(400, "invalid sort parameter")

\* C10: a read that runs while writes to its namespace are in flight answers
\* the namespace as committed when its transaction began: each article whole,
\* as the last committed Put of its title answered it, and none that an open
\* or failed write transaction holds.
C10_SnapshotReads ==
    \A p \in Handlers :
        /\ (Ran(p) /\ req[p].op = "getArticle") =>
              IF req[p].title \in DOMAIN seen[p].arts
              THEN resp[p].code = 200 /\ resp[p].items = <<seen[p].arts[req[p].title]>>
              ELSE resp[p].code = 404 /\ resp[p].items = <<>>
        /\ (Ran(p) /\ req[p].op = "getArticles") =>
              IF seen[p].exists
              THEN /\ resp[p].code = 200
                   /\ Items(resp[p]) = SeenArticles(p)
                   /\ Len(resp[p].items) = Cardinality(DOMAIN seen[p].arts)
              ELSE resp[p].code = 404 /\ resp[p].items = <<>>

\* a Get that began while a Put of another version of its article was open
\* has answered the committed version, the Put still uncommitted
C10_Witness ==
    \E r \in Readers, w \in Writers :
        /\ Ran(r) /\ req[r].op = "getArticle" /\ seen[r].busy /\ resp[r].code = 200
        /\ writer = w /\ pc[w] = "end" /\ req[w].op = "postArticle"
        /\ req[w].btitle = req[r].title
        /\ GobDecode(root[w][req[w].id][req[w].btitle]).Content # resp[r].items[1].content

\* what handler p's Delete found committed when its transaction began
DeleteSaw(p) ==
    IF ~seen[p].exists THEN "errUnknownID"
    ELSE IF req[p].title \notin DOMAIN seen[p].arts THEN "errUnknownTitle"
    ELSE "nil"

DeleteOutcome(p) ==
    /\ err[p] \in {DeleteSaw(p), "commit failed"}
    /\ err[p] = "commit failed" => DeleteSaw(p) = "nil"
    /\ resp[p] = deleteArticleResponse(err[p])
    /\ resp[p].code = 200 <=> err[p] = "nil"

\* C11: a Delete checks and removes in one read-write transaction, so it
\* succeeds only on an article that is committed and not yet removed when the
\* transaction begins; the racing Delete that comes second finds the title
\* unknown, or the namespace unknown once a DeleteAll committed
C11_DeleteRace ==
    \A p \in Handlers :
        (Ran(p) /\ req[p].op = "deleteArticle") => DeleteOutcome(p)

C11_Witness ==
    \E p \in Handlers : \E q \in Handlers \ {p} :
        /\ Ran(p) /\ Ran(q)
        /\ req[p].op = "deleteArticle" /\ req[q] = req[p]
        /\ seen[p].raced
        /\ resp[p].code = 200
        /\ resp[q] = UnknownTitle

\* a handler answers a mutating request with an error
FailedWrite(p) ==
    /\ pc[p] = "end" /\ pc'[p] = "done"
    /\ IsWrite(req[p].op)
    /\ resp'[p].code # 200

\* C12: the step in which a Put, Delete or DeleteAll answers an error leaves
\* the whole store as it was, and the store changes only in a step in which a
\* mutating request answers success; a Put whose transaction fails on the
\* empty title key leaves no namespace behind
C12_FailedWriteKeepsStore ==
    [][/\ \A p \in Handlers : FailedWrite(p) => db' = db
       /\ db' # db => \E p \in Handlers : \E op \in {"postArticle", "deleteArticle", "deleteArticles"} :
                          Commits(p, op) /\ resp'[p].code = 200]_vars

C12_Witness ==
    \E p \in Handlers :
        /\ Ran(p) /\ req[p].op = "postArticle" /\ req[p].btitle = ""
        /\ err[p] = "ErrKeyRequired" /\ resp[p].code = 500
        /\ ~seen[p].exists
        /\ req[p].id \notin DOMAIN db

\* handler p takes a step of a Get or GetAll request
ReadStep(p) == pc'[p] # pc[p] /\ IsRead(req'[p].op)

\* C13: no step of a Get or GetAll changes the store, so a read of an id
\* without namespace creates none; the namespaces of the store are the ids
\* with a committed Put since their last committed DeleteAll
C13_ReadsKeepStore ==
    [][/\ \A p \in Handlers : ReadStep(p) => db' = db
       /\ DOMAIN db' = DOMAIN ref']_vars

C13_Witness ==
    \E p \in Handlers :
        /\ Ran(p) /\ req[p].op = "getArticles"
        /\ seen[p].wiped
        /\ resp[p] = UnknownID
        /\ req[p].id \notin DOMAIN db
        /\ DOMAIN db # {}

\* the step leaves every namespace but id as it was
OthersKept(id) ==
    \A i \in Ids \ {id} :
        /\ HasBucket(db', i) <=> HasBucket(db, i)
        /\ HasBucket(db, i) => db'[i] = db[i]

\* the step leaves every entry of id but the one under title t as it was
EntriesKept(id, t) ==
    HasBucket(db, id) =>
        \A k \in DOMAIN db[id] \ {t} : k \in DOMAIN db'[id] /\ db'[id][k] = db[id][k]

Frame(p) ==
    LET id == req[p].id
        old == IF HasBucket(db, id) THEN DOMAIN db[id] ELSE {}
    IN  /\ Commits(p, "postArticle") =>
               /\ OthersKept(id) /\ EntriesKept(id, req[p].btitle)
               /\ DOMAIN db'[id] = old \cup {req[p].btitle}
        /\ Commits(p, "deleteArticle") =>
               /\ OthersKept(id) /\ EntriesKept(id, req[p].title)
               /\ req[p].title \in old
               /\ DOMAIN db'[id] = old \ {req[p].title}
        /\ Commits(p, "deleteArticles") =>
               /\ OthersKept(id)
               /\ HasBucket(db, id) /\ ~HasBucket(db', id)

\* C14: a committed Delete removes the entry of its id and title and nothing
\* else, a committed Put writes the entry of its id and its article's title and
\* nothing else, a committed DeleteAll removes the namespace of its id in that
\* one step, and none of them changes another namespace
C14_Frame == [][\A p \in Handlers : Frame(p)]_vars

C14_Witness ==
    \E p \in Handlers :
        /\ Ran(p) /\ req[p].op = "deleteArticle" /\ resp[p].code = 200
        /\ DOMAIN seen[p].arts = Titles
        /\ DOMAIN db[req[p].id] = Titles \ {req[p].title}
        /\ \E i \in Ids \ {req[p].id} : HasBucket(db, i) /\ DOMAIN db[i] # {}

\* the request fails validation: no id, no title on a single-article route, or
\* a POST that is not application/json or whose body does not decode
BadRequest(r) ==
    \/ r.id \in {NoParam, ""}
    \/ r.op \in {"getArticle", "deleteArticle"} /\ r.title \in {NoParam, ""}
    \/ r.op = "postArticle" /\ r.ctype # "application/json"
    \/ r.op = "postArticle" /\ (~r.bodyOK \/ r.btime = BadTime)

\* C15: a request that fails validation is answered 400 in plain text without
\* a transaction: its handler never opens one, never holds the writer lock,
\* and none of its steps changes the store
C15_ValidationBeforeStore ==
    [][\A p \in Handlers :
          (pc'[p] # pc[p] /\ BadRequest(req'[p])) =>
              /\ db' = db
              /\ opened'[p] = 0
              /\ writer' # p
              /\ pc'[p] \in {"start", "done"}
              /\ pc'[p] = "done" =>
                    resp'[p].code = 400 /\ resp'[p].ctype = "text/plain"]_vars

C15_Witness ==
    \E p \in Handlers :
        /\ Done(p) /\ req[p].op = "deleteArticle"
        /\ req[p].id = "alice" /\ req[p].title = ""
        /\ resp[p] = writeError(400, "missing title")
        /\ opened[p] = 0
        /\ HasBucket(db, "alice")

\* the namespace, or on a single-article route the title, of p's request was
\* not committed when its transaction began
NotFound(p) ==
    \/ ~seen[p].exists
    \/ req[p].op \in {"getArticle", "deleteArticle"}
          /\ req[p].title \notin DOMAIN seen[p].arts

StatusMapping(p) ==
    /\ NotFound(p) =>
          /\ resp[p].code = 404 /\ resp[p].ctype = "text/plain"
          /\ resp[p].text \in {"unknown ID", "unknown title"}
    /\ (~NotFound(p) /\ err[p] = "nil" /\ req[p].sort \in {NoParam, "asc", "desc"}) =>
          resp[p].code = 200
    /\ resp[p].code = 200 => ~NotFound(p) /\ err[p] = "nil"
    /\ resp[p].code = 500 =>
          ~NotFound(p) /\ err[p] \notin {"nil", "errUnknownID", "errUnknownTitle"}

\* C16: a Get, GetAll, Delete or DeleteAll that ran its transaction answers
\* 404 in plain text when the namespace or the title is unknown, 200 when it
\* succeeded, and 500 only when the transaction failed for another reason
C16_StatusMapping ==
    \A p \in Handlers :
        (Ran(p) /\ req[p].op \in {"getArticle", "deleteArticle", "getArticles", "deleteArticles"})
            => StatusMapping(p)

C16_Witness ==
    \E p \in Handlers :
        /\ Ran(p) /\ req[p].op = "deleteArticles"
        /\ ~seen[p].exists
        /\ resp[p] = UnknownID
        /\ DOMAIN db # {}

\* p and q handled, at one server time, POSTs that differ at most in the
\* "timestamp" field of the body, and the store failed neither
SameButTimestamp(p, q) ==
    /\ Done(p) /\ Done(q)
    /\ req[p].op = "postArticle"
    /\ [req[p] EXCEPT !.btime = NoParam] = [req[q] EXCEPT !.btime = NoParam]
    /\ arrived[p] = clock /\ arrived[q] = clock
    /\ err[p] # "commit failed" /\ err[q] # "commit failed"

\* C17: two POSTs that differ only in the body's timestamp field and are
\* handled at the same server time store the same article, stamped with the
\* server clock, and get the same response
C17_TimestampIgnored ==
    \A p \in Handlers : \A q \in Handlers \ {p} :
        SameButTimestamp(p, q) =>
            /\ a[p] = a[q]
            /\ a[p].Timestamp = Now(clock)
            /\ resp[p] = resp[q]

\* the Accept header names text/xml and not application/json
WantsXML(r) == "text/xml" \in r.accept /\ "application/json" \notin r.accept

IsXML(rsp) == rsp.ctype = "text/xml" /\ rsp.shape = "xml"
IsJSON(rsp) ==
    rsp.ctype = "application/json" /\ rsp.shape \in {"object", "array", "null"}

\* C18: the success body of the list endpoint is XML exactly when Accept
\* names text/xml and not application/json, and JSON otherwise; the success
\* bodies of the single-article GET and of POST are JSON whatever Accept says
C18_Negotiation ==
    \A p \in Handlers :
        (Done(p) /\ resp[p].code = 200) =>
            /\ req[p].op = "getArticles" =>
                  /\ IsXML(resp[p]) <=> WantsXML(req[p])
                  /\ IsJSON(resp[p]) <=> ~WantsXML(req[p])
            /\ req[p].op \in {"getArticle", "postArticle"} =>
                  IsJSON(resp[p]) /\ resp[p].shape = "object"

C18_Witness ==
    \E p \in Handlers :
        /\ Done(p) /\ req[p].op = "getArticles"
        /\ req[p].accept = {"text/xml", "application/json"}
        /\ resp[p].code = 200 /\ IsJSON(resp[p])
        /\ Len(resp[p].items) = 2

\* handler p opens a transaction in this step
Opens(p) == opened'[p] = opened[p] + 1

\* db.Update's closure or commit has returned an error to handler p
TxFailed(p) == pc[p] = "end" /\ pc'[p] # "end" /\ err'[p] # "nil"

\* C19: a request opens at most one transaction, a db.Update under the writer
\* lock for Put, Delete and DeleteAll and a db.View without it for Get and
\* GetAll, and when the transaction returns an error the handler answers an
\* error at once and opens no other
C19_OneTransaction ==
    [][\A p \in Handlers :
          /\ opened'[p] <= 1
          /\ Opens(p) =>
                /\ req[p].op \in {"postArticle", "deleteArticle", "deleteArticles"}
                      => writer' = p
                /\ req[p].op \in {"getArticle", "getArticles"} => writer' # p
          /\ TxFailed(p) =>
                pc'[p] = "done" /\ resp'[p].code \in {404, 500} /\ opened'[p] = 1]_vars

C19_Witness ==
    \E p \in Handlers :
        /\ Done(p) /\ req[p].op = "postArticle"
        /\ err[p] = "commit failed" /\ resp[p].code = 500
        /\ opened[p] = 1
        /\ writer = NoHandler

\* a handler holds the writer lock only inside its transaction, and a reader
\* at its db.View can always begin
LockDiscipline ==
    \A p \in Handlers :
        /\ writer = p => pc[p] \in {"body", "end"} /\ IsWrite(req[p].op)
        /\ (pc[p] = "lock" /\ IsRead(req[p].op)) => ENABLED ViewBegin(p)

\* C20: under fair scheduling every request that reached its handler is
\* eventually answered: a writer waiting for the writer lock eventually gets
\* it; the lock is held only for the one transaction, and a reader is never
\* kept waiting by a writer
C20_EveryRequestAnswered ==
    /\ \A p \in Handlers : (pc[p] = "start") ~> (pc[p] = "done")
    /\ []LockDiscipline

C20_Witness ==
    \E p \in Handlers : \E q \in Handlers \ {p} :
        /\ writer = p /\ pc[p] = "end" /\ err[p] # "nil"
        /\ pc[q] = "lock" /\ IsWrite(req[q].op)
        /\ opened[q] = 0

\* the store read as a map from user id to (title -> article)
StoreAsMap(r) ==
    [id \in DOMAIN r |-> [t \in DOMAIN r[id] |-> JSONArticle(GobDecode(r[id][t]))]]

\* the root a whole db.Update of request r leaves when it starts from rt at
\* server time c
ApplyWrite(rt, r, c) ==
    LET art == [JSONDecode(r).art EXCEPT !.Timestamp = Now(c)]
        res == UpdateResult(r, rt, art)
    IN  TxOutcome(rt, res.root, res.err)

\* the valid mutations of user id
WritesOf(id) == {r \in RaceWrites : r.id = id /\ Invalid(r) = ""}

\* mutations of different namespaces give the same store in either order
\* (of two users' mutations, one is alice's)
Commute(rt, c) ==
    \A r1 \in WritesOf("alice") : \A id \in Ids \ {"alice"} : \A r2 \in WritesOf(id) :
        ApplyWrite(ApplyWrite(rt, r1, c), r2, c) = ApplyWrite(ApplyWrite(rt, r2, c), r1, c)

\* C21: with Puts, Deletes and DeleteAlls of two handlers interleaved at every
\* step, the store always equals the sequential map obtained by applying the
\* committed mutations one at a time in commit order, and mutations of
\* different namespaces commute
C21_Serializable == StoreAsMap(db) = ref /\ Commute(db, clock)

C21_Witness ==
    \E p \in Handlers : \E q \in Handlers \ {p} :
        /\ Ran(p) /\ Ran(q)
        /\ req[p].op = "postArticle" /\ req[p].id = "alice" /\ resp[p].code = 200
        /\ req[q].op = "postArticle" /\ req[q].id = "bob" /\ resp[q].code = 200
        /\ arrived[p] = arrived[q]
        /\ ~seen[p].exists /\ seen[q].exists
        /\ DOMAIN db = Ids

\* handler p's committed Put replaced an article of its title
Replaced(p) ==
    /\ Ran(p) /\ req[p].op = "postArticle" /\ resp[p].code = 200
    /\ req[p].btitle \in DOMAIN seen[p].arts

\* C22: a committed Put that replaces an article stores a timestamp not
\* earlier than the one it replaces, also when Puts run concurrently
C22_TimestampMonotone ==
    \A p \in Handlers :
        Replaced(p) =>
            seen[p].arts[req[p].btitle].timestamp <= resp[p].items[1].timestamp

\* every entry of root r is stored under the non-empty title of its article
KeysAreTitles(r) ==
    \A id \in DOMAIN r : \A k \in DOMAIN r[id] :
        k # "" /\ GobDecode(r[id][k]).Title = k

\* C23: every entry of every namespace is stored under a key that is the
\* Title of the article it holds and is not empty; a POST whose body decodes
\* to an empty title is answered an error and stores nothing
C23_KeyIsTitle ==
    /\ KeysAreTitles(db)
    /\ \A p \in Handlers :
          (Ran(p) /\ req[p].op = "postArticle" /\ a[p].Title = "") =>
              /\ resp[p].code = 500
              /\ StoreAsMap(db) = ref

C23_Witness ==
    \E p \in Handlers :
        /\ Ran(p) /\ req[p].op = "postArticle" /\ a[p].Title = ""
        /\ seen[p].exists /\ DOMAIN seen[p].arts # {}
        /\ resp[p].code = 500
        /\ DOMAIN db[req[p].id] = DOMAIN seen[p].arts

\* the id or the title of p's request was not committed when p read
OldNotFound(p) ==
    ~seen[p].exists \/ req[p].title \notin DOMAIN seen[p].arts

\* C24: the single-article GET of the earlier revisions answers an unknown
\* user id and a title absent from an existing namespace with 400, never 500
C24_OldNotFoundIs400 ==
    \A p \in Handlers :
        (Ran(p) /\ req[p].op \in {"getArticleQuery", "getArticlePath"} /\ OldNotFound(p))
            => resp[p].code = 400

====
